---- MODULE Spec2Model ----
(***************************************************************************)
(* Link shortener with click tracking: the flat-file record store          *)
(* (src/src/lib/database.ts), the short-code generator                     *)
(* (src/src/lib/link-generator.ts), the link API routes and the            *)
(* /r/{shortCode} redirect handler.                                        *)
(*                                                                         *)
(* Every handler is an async function; it is cut at its awaits on the      *)
(* store's files.  One step of a request is one file operation together    *)
(* with the synchronous code that follows it up to the next await.         *)
(***************************************************************************)
EXTENDS Integers, Naturals, Sequences, FiniteSets, TLC

VARIABLES
    linksFile,   \* content of data/links.json: a sequence of TrackingLink
    clicksFile,  \* content of data/clicks.json: a sequence of LinkClick
    now,         \* the clock: what new Date() returns
    nextId,      \* source of the opaque ids of generateId / generateSessionId
    pc,          \* per request slot: the await the handler is suspended at
    req,         \* per request slot: the request being served
    loc,         \* per request slot: the handler's local variables
    resp,        \* per request slot: the response of the last request
    pre,         \* per request slot: the two files as they were on arrival
    fault,       \* TRUE when the next file operation is going to fail
    faultsLeft,  \* number of file failures still to be injected
    quota,       \* number of requests still to be received
    recording,   \* whether the run keeps pre (runs of one request at a time)
    deleted      \* history: the ids deleteLink has removed from links.json

vars == <<linksFile, clicksFile, now, nextId, pc, req, loc, resp, pre,
          fault, faultsLeft, quota, recording, deleted>>

----------------------------------------------------------------------------
(* Bounds of the model *)

NumSlots == 2      \* requests that can be in flight together
MaxReqs == 3       \* requests received in a run with overlapping requests
MaxSeqReqs == 4    \* requests received in a run of one request at a time
MaxTime == 2       \* last value of the clock
MaxFaults == 1     \* file operations that fail in a run with failures
MaxLiveReqs == 2   \* requests received in a run checked for progress
MaxReadReqs == 3   \* requests received in a run of one writer and readers
MaxDeviceReqs == 2 \* requests received in a run that classifies devices
MaxApiReqs == 3    \* requests received in a run of the link API, one at a time
MaxOvLinks == 6    \* links of a store the overview is computed from
MaxLinkClicks == 2 \* clicks of a link of such a store
MaxOvReqs == 1     \* requests for the overview of such a store
NumDrawChars == 1  \* characters of CHARACTERS the random draws use

Slots == 1..NumSlots

----------------------------------------------------------------------------
(* Values *)

\* the value undefined (or null) of an optional string; no string of the
\* program's inputs equals it
Undefined == "<undefined>"
\* the value undefined of an optional timestamp
NoTime == -1
\* a date string that new Date() parses to an Invalid Date (NaN)
InvalidDate == -2

\* an optional record: <<>> for null, <<r>> for the record r
Some(r) == <<r>>
None == <<>>

RECURSIVE Rep(_, _)
Rep(c, n) == IF n = 0 THEN "" ELSE c \o Rep(c, n - 1)

CharAt(s, i) == SubSeq(s, i, i)

\* String.prototype.includes
Contains(s, pat) ==
    \E i \in 1..(Len(s) - Len(pat) + 1) : SubSeq(s, i, i + Len(pat) - 1) = pat

UPPER == "ABCDEFGHIJKLMNOPQRSTUVWXYZ"
LOWER == "abcdefghijklmnopqrstuvwxyz"
DIGITS == "0123456789"

IndexIn(s, c) ==
    IF \E i \in 1..Len(s) : CharAt(s, i) = c
    THEN CHOOSE i \in 1..Len(s) : CharAt(s, i) = c
    ELSE 0

\* the lower-case form of one character
LowerChar(c) ==
    LET k == IndexIn(UPPER, c)
    IN  IF k = 0 THEN c ELSE CharAt(LOWER, k)

\* the lower-case form of s from its i-th character on
RECURSIVE LowerFrom(_, _)
LowerFrom(s, i) ==
    IF i > Len(s) THEN ""
    ELSE LowerChar(CharAt(s, i)) \o LowerFrom(s, i + 1)

toLowerCase(s) == LowerFrom(s, 1)

\* Array.prototype.filter
Filter(s, P(_)) == SelectSeq(s, P)

\* Array.prototype.find, as an optional record
Find(s, P(_)) ==
    IF \E i \in 1..Len(s) : P(s[i])
    THEN Some(s[CHOOSE i \in 1..Len(s) : P(s[i]) /\ \A j \in 1..(i - 1) : ~P(s[j])])
    ELSE None

\* Array.prototype.findIndex, 1-based; 0 for -1
FindIndex(s, P(_)) ==
    IF \E i \in 1..Len(s) : P(s[i])
    THEN CHOOSE i \in 1..Len(s) : P(s[i]) /\ \A j \in 1..(i - 1) : ~P(s[j])
    ELSE 0

----------------------------------------------------------------------------
(* src/src/lib/link-generator.ts *)

CHARACTERS == UPPER \o LOWER \o DIGITS
SHORT_CODE_LENGTH == 8
maxAttempts == 10

\* The codes a call of generateRandomCode(length) can return; the model draws
\* every character alike, from the first NumDrawChars characters.
generateRandomCode(length) ==
    {Rep(CharAt(CHARACTERS, i), length) : i \in 1..NumDrawChars}

\* The protocol new URL(url) parses, "" when it throws.
UrlProtocol(url) ==
    IF \E i \in 2..(Len(url) - 3) : SubSeq(url, i, i + 2) = "://"
    THEN LET i == CHOOSE k \in 2..(Len(url) - 3) :
                      /\ SubSeq(url, k, k + 2) = "://"
                      /\ \A j \in 2..(k - 1) : SubSeq(url, j, j + 2) # "://"
         IN  SubSeq(url, 1, i)
    ELSE ""

isValidUrl(url) == UrlProtocol(url) \in {"http:", "https:"}

isValidCustomCode(code) ==
    /\ Len(code) >= 1
    /\ \A i \in 1..Len(code) :
          \/ Contains(CHARACTERS, CharAt(code, i))
          \/ CharAt(code, i) \in {"_", "-"}
    /\ Len(code) >= 3
    /\ Len(code) <= 50

createTrackingLink(originalUrl, shortCode, options, id, t) ==
    [id |-> id,
     originalUrl |-> originalUrl,
     shortCode |-> shortCode,
     title |-> options.title,
     description |-> options.description,
     createdAt |-> t,
     updatedAt |-> t,
     isActive |-> TRUE,
     expiresAt |-> options.expiresAt,
     password |-> options.password,
     totalClicks |-> 0,
     uniqueClicks |-> 0,
     lastClickAt |-> NoTime]

\* new Date(a) < new Date(b) and <=, false when a is an Invalid Date
DateLess(a, b) == a # InvalidDate /\ a < b
DateLessEq(a, b) == a # InvalidDate /\ a <= b

\* isLinkExpired without the comparison: no link ever expires
isLinkExpired_never(link, t) == FALSE

isLinkExpired(link, t) ==
    IF link.expiresAt = NoTime THEN FALSE
    ELSE DateLess(link.expiresAt, t)

isPasswordProtected(link) ==
    ~(link.password = Undefined \/ link.password = "")

----------------------------------------------------------------------------
(* src/src/lib/validation.ts *)

\* /^[a-zA-Z0-9_-]+$/
isValidCustomCodeChars(code) ==
    /\ Len(code) >= 1
    /\ \A i \in 1..Len(code) :
          \/ Contains(CHARACTERS, CharAt(code, i))
          \/ CharAt(code, i) \in {"_", "-"}

customCodeSchema(code) ==
    /\ Len(code) >= 3
    /\ Len(code) <= 50
    /\ \A i \in 1..Len(code) :
          \/ Contains(CHARACTERS, CharAt(code, i))
          \/ CharAt(code, i) \in {"_", "-"}

urlSchema(url) == UrlProtocol(url) \in {"http:", "https:"}

\* the messages of a schema's failed checks: those of checks whose condition
\* (a pair <<failed, message>>) is TRUE, in the order of the checks
Messages(checks) ==
    LET failed == SelectSeq(checks, LAMBDA c : c[1])
    IN  [i \in 1..Len(failed) |-> failed[i][2]]

\* validation.errors: the messages of the issues createLinkSchema.parse(body)
\* raises at clock value t, field by field
ValidationErrors(body, t) ==
    Messages(<<
      <<UrlProtocol(body.originalUrl) = "", "Please enter a valid URL">>,
      <<~urlSchema(body.originalUrl), "URL must use HTTP or HTTPS protocol">>,
      <<body.customCode # Undefined /\ Len(body.customCode) < 3,
        "Custom code must be at least 3 characters">>,
      <<body.customCode # Undefined /\ Len(body.customCode) > 50,
        "Custom code must be no more than 50 characters">>,
      <<body.customCode # Undefined /\ ~isValidCustomCodeChars(body.customCode),
        "Custom code can only contain letters, numbers, hyphens, and underscores">>,
      <<body.title # Undefined /\ Len(body.title) > 200,
        "Title must be no more than 200 characters">>,
      <<body.description # Undefined /\ Len(body.description) > 500,
        "Description must be no more than 500 characters">>,
      <<body.password # Undefined /\ Len(body.password) < 4,
        "Password must be at least 4 characters">>,
      <<body.password # Undefined /\ Len(body.password) > 100,
        "Password must be no more than 100 characters">>,
      <<body.expiresAt = InvalidDate, "Please enter a valid date and time">>,
      <<body.expiresAt # NoTime /\ ~(body.expiresAt # InvalidDate /\ body.expiresAt > t),
        "Expiration date must be in the future">>
    >>)

\* createLinkSchema with no check at all: every body is valid
validateCreateLinkData_lax(body, t) == TRUE

\* createLinkSchema.parse(body) succeeds, at clock value t
validateCreateLinkData(body, t) ==
    /\ urlSchema(body.originalUrl)
    /\ body.customCode # Undefined => customCodeSchema(body.customCode)
    /\ body.title # Undefined => Len(body.title) <= 200
    /\ body.description # Undefined => Len(body.description) <= 500
    /\ body.password # Undefined =>
          Len(body.password) >= 4 /\ Len(body.password) <= 100
    /\ body.expiresAt # NoTime =>
          body.expiresAt # InvalidDate /\ body.expiresAt > t

----------------------------------------------------------------------------
(* src/src/lib/device-detection.ts *)

\* the alternatives of the three regular expressions of getDeviceType;
\* \s is modelled by the space and the tab
tabletTokens == <<"tablet", "ipad", "playbook", "silk">>
mobileTokens ==
    <<"mobile", "iphone", "ipod", "android", "blackberry", "opera", "mini",
      "windows ce", "windows\tce", "palm", "smartphone", "iemobile">>
desktopTokens == <<"desktop", "windows", "macintosh", "linux">>

\* /a|b|.../i.test(ua)
TestAny(tokens, ua) ==
    LET lower == toLowerCase(ua)
    IN  \E i \in 1..Len(tokens) : Contains(lower, tokens[i])

\* getDeviceType with the test for mobile before the test for tablet
getDeviceType_mobileFirst(ua) ==
    IF TestAny(mobileTokens, ua) THEN "mobile"
    ELSE IF TestAny(tabletTokens, ua) THEN "tablet"
    ELSE IF TestAny(desktopTokens, ua) THEN "desktop"
    ELSE "unknown"

getDeviceType(ua) ==
    IF TestAny(tabletTokens, ua) THEN "tablet"
    ELSE IF TestAny(mobileTokens, ua) THEN "mobile"
    ELSE IF TestAny(desktopTokens, ua) THEN "desktop"
    ELSE "unknown"

\* the browser of getBrowserInfo (the version is left out)
getBrowserInfo(ua) ==
    IF Contains(ua, "chrome") /\ ~Contains(ua, "edg") THEN "Chrome"
    ELSE IF Contains(ua, "firefox") THEN "Firefox"
    ELSE IF Contains(ua, "safari") /\ ~Contains(ua, "chrome") THEN "Safari"
    ELSE IF Contains(ua, "edg") THEN "Edge"
    ELSE IF Contains(ua, "trident") \/ Contains(ua, "msie") THEN "Internet Explorer"
    ELSE IF Contains(ua, "opr") \/ Contains(ua, "opera") THEN "Opera"
    ELSE "Unknown"

\* the type and the browser of the DeviceInfo parseUserAgent returns
parseUserAgent(userAgent) ==
    LET ua == toLowerCase(userAgent)
    IN  [type |-> getDeviceType(ua), browser |-> getBrowserInfo(ua)]

\* generateSessionId with one id for every visitor
generateSessionId_fixed(n) == 0

\* generateSessionId: the n-th id drawn; no two draws give the same id
generateSessionId(n) == n

botPatterns ==
    <<"bot", "crawler", "spider", "crawling",
      "facebook", "twitter", "google", "bing",
      "yahoo", "slurp", "duckduckbot", "baiduspider",
      "yandexbot", "facebookexternalhit", "twitterbot",
      "linkedinbot", "whatsapp", "telegram", "skype">>

\* isBot without toLowerCase
isBot_caseSensitive(userAgent) ==
    \E i \in 1..Len(botPatterns) : Contains(userAgent, botPatterns[i])

isBot(userAgent) ==
    LET ua == toLowerCase(userAgent)
    IN  \E i \in 1..Len(botPatterns) : Contains(ua, botPatterns[i])

----------------------------------------------------------------------------
(* src/src/lib/database.ts *)

\* readJSONFile: the content of the file, [] when reading it throws
readJSONFile(file) == IF fault THEN <<>> ELSE file

getLinkByShortCode(links, shortCode) ==
    Find(links, LAMBDA link : link.shortCode = shortCode)

getLinkById(links, id) ==
    Find(links, LAMBDA link : link.id = id)

getClicksByLinkId(clicks, linkId) ==
    Filter(clicks, LAMBDA click : click.linkId = linkId)

\* { ...link, ...updates, updatedAt: new Date().toISOString() }
MergeLink(link, updates, t) ==
    [f \in DOMAIN link |->
        IF f = "updatedAt" THEN t
        ELSE IF f \in DOMAIN updates THEN updates[f]
        ELSE link[f]]

\* updateLinkStats taking lastClickAt from the first click, not the last
StatsOf_first(clicks) ==
    [totalClicks |-> Len(clicks),
     uniqueClicks |-> Cardinality({clicks[i].sessionId : i \in 1..Len(clicks)}),
     lastClickAt |-> IF Len(clicks) = 0 THEN NoTime ELSE clicks[1].timestamp]

\* the updates updateLinkStats computes from the link's clicks
StatsOf(clicks) ==
    [totalClicks |-> Len(clicks),
     uniqueClicks |-> Cardinality({clicks[i].sessionId : i \in 1..Len(clicks)}),
     lastClickAt |-> IF Len(clicks) = 0 THEN NoTime
                     ELSE clicks[Len(clicks)].timestamp]

----------------------------------------------------------------------------
(* The requests of a run *)

Url_ok == "https://a.io"
Url_ftp == "ftp://a.io"
Code_abc == "abc"
Code_short == "ab"
Pw_secret == "secret1"
Pw_wrong == "secret2"
UA_browser == "Mozilla Linux"
UA_bot == "LinkedInBot/1.0"
Referer_search == "https://www.google.com/search"
Countries == {"FR"}

PostBody(url, code, pw, exp) ==
    [originalUrl |-> url, customCode |-> code, title |-> Undefined,
     description |-> Undefined, password |-> pw, expiresAt |-> exp]

\* bodies of POST /api/links: a random code, a protected link and an
\* expiring link under a custom code, and two bodies that fail validation
PostBodies ==
    {PostBody(Url_ok, Undefined, Undefined, NoTime),
     PostBody(Url_ok, Code_abc, Pw_secret, NoTime),
     PostBody(Url_ok, Code_abc, Undefined, 1),
     PostBody(Url_ftp, Undefined, Undefined, NoTime),
     PostBody(Url_ok, Code_short, Undefined, 0)}

\* bodies of PUT /api/links/{id}
PutBodies ==
    {[isActive |-> FALSE],
     [expiresAt |-> 1],
     [expiresAt |-> InvalidDate],
     [title |-> "t", password |-> Pw_wrong, totalClicks |-> 7]}

\* what a client of /r/{shortCode} sends: password parameter, user agent,
\* referer
Visitors ==
    {<<Undefined, UA_browser, Referer_search>>,
     <<Pw_secret, UA_browser, Undefined>>,
     <<Pw_wrong, UA_browser, Undefined>>,
     <<Pw_secret, UA_bot, Undefined>>,
     <<Pw_secret, Undefined, Undefined>>}

\* Words of user agents: names of tablets, of phones and mobile browsers, and
\* of desktop systems, each with "" for none
TabletWords == {"", "iPad", "Tablet", "PlayBook", "Silk"}
MobileWords == {"", "Mobile", "iPhone", "Android", "Opera Mini", "Windows CE", "IEMobile"}
DesktopWords == {"", "Windows", "Macintosh", "Linux", "desktop"}

\* the user agent made of a desktop word, a mobile word and a tablet word
UserAgentWith(d, m, t) == "Mozilla/5.0 (" \o d \o "; " \o m \o ") " \o t

\* the user agents of the visitors whose device is classified
DeviceUserAgents ==
    {UserAgentWith(d, m, t) : d \in DesktopWords, m \in MobileWords, t \in TabletWords}

\* short codes a client asks /r/{shortCode} for
AskedCodes == {Code_abc} \cup generateRandomCode(SHORT_CODE_LENGTH)

\* the ids a client sends: those of the stored links, and one of no link
KnownIds == {linksFile[i].id : i \in 1..Len(linksFile)} \cup {0}

----------------------------------------------------------------------------
(* State *)

EmptyLoc ==
    [links |-> <<>>, clicks |-> <<>>, link |-> None, click |-> None,
     updates |-> None, code |-> "", attempts |-> 0]

NoResponse == [status |-> 0, location |-> Undefined, data |-> None]
Response(status) == [status |-> status, location |-> Undefined, data |-> None]
Redirect(url) == [status |-> 302, location |-> url, data |-> None]
Json(status, link) == [status |-> status, location |-> Undefined, data |-> link]

\* the link as stored, the password with it
StripPassword_kept(link) == link

\* { ...link, password: undefined }
StripPassword(link) == [link EXCEPT !.password = Undefined]

NoSnapshot == [links |-> <<>>, clicks |-> <<>>]

InitWith(requests, faults, rec) ==
    /\ linksFile = <<>>
    /\ clicksFile = <<>>
    /\ now = 0
    /\ nextId = 1
    /\ pc = [p \in Slots |-> "idle"]
    /\ req = [p \in Slots |-> [kind |-> "none"]]
    /\ loc = [p \in Slots |-> EmptyLoc]
    /\ resp = [p \in Slots |-> NoResponse]
    /\ pre = [p \in Slots |-> NoSnapshot]
    /\ fault = FALSE
    /\ faultsLeft = faults
    /\ quota = requests
    /\ recording = rec
    /\ deleted = {}

Init == InitWith(MaxReqs, 0, FALSE)

Done(p) == pc[p] = "done"
Idle(p) == pc[p] = "idle"

\* The clock is read as now.  It advances between the arrivals of requests,
\* by one tick at most, and stands while the handlers run.
ClockValues == {t \in {now, now + 1} : t <= MaxTime}

\* The request r arrives.  The idle slots are alike, so it takes the first.
Receive(p, r) ==
    /\ Idle(p)
    /\ \A q \in Slots : ~Done(q) /\ (q < p => ~Idle(q))
    /\ quota > 0
    /\ quota' = quota - 1
    /\ now' \in ClockValues
    /\ req' = [req EXCEPT ![p] = r]
    /\ pre' = [pre EXCEPT ![p] = IF recording
                                  THEN [links |-> linksFile, clicks |-> clicksFile]
                                  ELSE NoSnapshot]
    /\ UNCHANGED <<recording, deleted>>

\* the handler of slot p returns the response r
Reply(p, r) ==
    /\ resp' = [resp EXCEPT ![p] = r]
    /\ pc' = [pc EXCEPT ![p] = "done"]
    /\ loc' = [loc EXCEPT ![p] = EmptyLoc]

\* the handler of slot p suspends at the await named label, with locals l
Await(p, label, l) ==
    /\ pc' = [pc EXCEPT ![p] = label]
    /\ loc' = [loc EXCEPT ![p] = l]
    /\ UNCHANGED resp

\* a step of a running handler: the file operation it awaited has happened
Resume(p, label) ==
    /\ pc[p] = label
    /\ \A q \in Slots : ~Done(q)
    /\ fault' = FALSE
    /\ deleted' = IF label = "del_write_links" /\ ~fault
                  THEN deleted \cup {req[p].id}
                  ELSE deleted
    /\ UNCHANGED <<now, req, pre, faultsLeft, quota, recording>>

\* The response of slot p has been sent and the slot is free again.  A
\* response is looked at in the state its handler returned in; nothing else
\* happens before the slot is freed.
Close(p) ==
    /\ Done(p)
    /\ pc' = [pc EXCEPT ![p] = "idle"]
    /\ req' = [req EXCEPT ![p] = [kind |-> "none"]]
    /\ resp' = [resp EXCEPT ![p] = NoResponse]
    /\ pre' = [pre EXCEPT ![p] = NoSnapshot]
    /\ UNCHANGED <<linksFile, clicksFile, now, nextId, loc, fault, faultsLeft, quota,
                   recording, deleted>>

-----
(* POST /api/links: src/unnamed/part_001 *)

\* generateUniqueShortCode returned shortCode: the handler builds the link and
\* calls createLink
PostCreate(p, shortCode) ==
    /\ Await(p, "create_read",
             [loc[p] EXCEPT
                 !.link = Some(createTrackingLink(req[p].body.originalUrl,
                                 shortCode, req[p].body, nextId, now))])
    /\ nextId' = nextId + 1

BeginPost(p) ==
    \E body \in PostBodies :
        /\ Receive(p, [kind |-> "POST", body |-> body])
        /\ IF ~validateCreateLinkData(body, now')
           THEN Reply(p, Json(400, ValidationErrors(body, now')))
           ELSE IF ~isValidUrl(body.originalUrl)
           THEN Reply(p, Response(400))
           ELSE IF body.customCode # Undefined /\ body.customCode # ""
                   /\ ~isValidCustomCode(body.customCode)
           THEN Reply(p, Response(400))
           ELSE IF body.customCode # Undefined /\ body.customCode # ""
           THEN Await(p, "gen_custom", [EmptyLoc EXCEPT !.code = body.customCode])
           ELSE \E code \in generateRandomCode(SHORT_CODE_LENGTH) :
                    Await(p, "gen_random", [EmptyLoc EXCEPT !.code = code])
        /\ UNCHANGED <<linksFile, clicksFile, nextId, fault, faultsLeft>>

\* the check of a custom code without the lookup: every code is free
CustomCodeExists_never(links, customCode) == FALSE

\* const existing = await getLinkByShortCode(customCode); if (existing) ...
CustomCodeExists(links, customCode) ==
    getLinkByShortCode(links, customCode) # None

\* generateUniqueShortCode(customCode), after its getLinkByShortCode
GenCustom(p) ==
    /\ Resume(p, "gen_custom")
    /\ IF CustomCodeExists(readJSONFile(linksFile), loc[p].code)
       THEN Reply(p, Response(409)) /\ UNCHANGED nextId
       ELSE PostCreate(p, loc[p].code)
    /\ UNCHANGED <<linksFile, clicksFile>>

\* generateUniqueShortCode(), after the getLinkByShortCode of one attempt
GenRandom(p) ==
    /\ Resume(p, "gen_random")
    /\ IF getLinkByShortCode(readJSONFile(linksFile), loc[p].code) = None
       THEN PostCreate(p, loc[p].code)
       ELSE /\ UNCHANGED nextId
            /\ IF loc[p].attempts + 1 < maxAttempts
               THEN \E code \in generateRandomCode(SHORT_CODE_LENGTH) :
                        Await(p, "gen_random",
                              [loc[p] EXCEPT !.code = code,
                                             !.attempts = loc[p].attempts + 1])
               ELSE \E code \in generateRandomCode(SHORT_CODE_LENGTH + 2) :
                        Await(p, "gen_longer",
                              [loc[p] EXCEPT !.code = code,
                                             !.attempts = loc[p].attempts + 1])
    /\ UNCHANGED <<linksFile, clicksFile>>

\* generateUniqueShortCode without its last throw: the colliding code is used
GenerationFailed_reuse(p) == PostCreate(p, loc[p].code)

\* throw new Error('Unable to generate unique short code'): POST rethrows it
\* to its outer catch, which answers 500
GenerationFailed(p) == Reply(p, Response(500)) /\ UNCHANGED nextId

\* generateUniqueShortCode(), after the getLinkByShortCode of the longer code
GenLonger(p) ==
    /\ Resume(p, "gen_longer")
    /\ IF getLinkByShortCode(readJSONFile(linksFile), loc[p].code) = None
       THEN PostCreate(p, loc[p].code)
       ELSE GenerationFailed(p)
    /\ UNCHANGED <<linksFile, clicksFile>>

\* createLink, after getAllLinks
CreateRead(p) ==
    /\ Resume(p, "create_read")
    /\ Await(p, "create_write", [loc[p] EXCEPT !.links = readJSONFile(linksFile)])
    /\ UNCHANGED <<linksFile, clicksFile, nextId>>

\* createLink, after writeJSONFile; the handler answers
CreateWrite(p) ==
    /\ Resume(p, "create_write")
    /\ IF fault
       THEN Reply(p, Response(500)) /\ UNCHANGED linksFile
       ELSE /\ linksFile' = Append(loc[p].links, loc[p].link[1])
            /\ Reply(p, Json(201, Some(StripPassword(loc[p].link[1]))))
    /\ UNCHANGED <<clicksFile, nextId>>

----------------------------------------------------------------------------

----------------------------------------------------------------------------
(* PUT /api/links/{id}: src/unnamed/part_002 *)

allowedUpdates == {"title", "description", "isActive", "password", "expiresAt"}

\* the entries of the body the handler copies into updates
PutUpdates(body) == [k \in DOMAIN body \cap allowedUpdates |-> body[k]]

\* updates.expiresAt && new Date(updates.expiresAt) <= new Date()
PutExpiresAtRejected(updates, t) ==
    /\ "expiresAt" \in DOMAIN updates
    /\ updates.expiresAt # NoTime
    /\ DateLessEq(updates.expiresAt, t)

BeginPut(p) ==
    \E id \in KnownIds, body \in PutBodies :
        /\ Receive(p, [kind |-> "PUT", id |-> id, body |-> body])
        /\ Await(p, "put_get", EmptyLoc)
        /\ UNCHANGED <<linksFile, clicksFile, nextId, fault, faultsLeft>>

\* after the first getLinkById
PutGet(p) ==
    /\ Resume(p, "put_get")
    /\ IF getLinkById(readJSONFile(linksFile), req[p].id) = None
       THEN Reply(p, Response(404))
       ELSE IF PutExpiresAtRejected(PutUpdates(req[p].body), now)
       THEN Reply(p, Response(400))
       ELSE Await(p, "upd_read",
                  [loc[p] EXCEPT !.updates = Some(PutUpdates(req[p].body))])
    /\ UNCHANGED <<linksFile, clicksFile, nextId>>

\* updateLink, after getAllLinks: the merged list it is going to write, or
\* None when it returns false
updateLinkMerge(links, id, updates, t) ==
    LET index == FindIndex(links, LAMBDA link : link.id = id)
    IN  IF index = 0 THEN None
        ELSE Some([links EXCEPT ![index] = MergeLink(links[index], updates, t)])

\* updateLink called by PUT, after getAllLinks
UpdRead(p) ==
    /\ Resume(p, "upd_read")
    /\ LET merged == updateLinkMerge(readJSONFile(linksFile), req[p].id,
                                     loc[p].updates[1], now)
       IN  IF merged = None
           THEN Reply(p, Response(500))
           ELSE Await(p, "upd_write", [loc[p] EXCEPT !.links = merged[1]])
    /\ UNCHANGED <<linksFile, clicksFile, nextId>>

\* updateLink called by PUT, after writeJSONFile
UpdWrite(p) ==
    /\ Resume(p, "upd_write")
    /\ IF fault
       THEN Reply(p, Response(500)) /\ UNCHANGED linksFile
       ELSE linksFile' = loc[p].links /\ Await(p, "put_get2", EmptyLoc)
    /\ UNCHANGED <<clicksFile, nextId>>

\* after the second getLinkById; the handler answers
PutGet2(p) ==
    /\ Resume(p, "put_get2")
    /\ LET updatedLink == getLinkById(readJSONFile(linksFile), req[p].id)
       IN  Reply(p, Json(200, IF updatedLink = None THEN None
                              ELSE Some(StripPassword(updatedLink[1]))))
    /\ UNCHANGED <<linksFile, clicksFile, nextId>>

----------------------------------------------------------------------------
(* DELETE /api/links/{id}: src/unnamed/part_002 *)

BeginDelete(p) ==
    \E id \in KnownIds :
        /\ Receive(p, [kind |-> "DELETE", id |-> id])
        /\ Await(p, "del_get", EmptyLoc)
        /\ UNCHANGED <<linksFile, clicksFile, nextId, fault, faultsLeft>>

\* after getLinkById
DelGet(p) ==
    /\ Resume(p, "del_get")
    /\ IF getLinkById(readJSONFile(linksFile), req[p].id) = None
       THEN Reply(p, Response(404))
       ELSE Await(p, "del_read", EmptyLoc)
    /\ UNCHANGED <<linksFile, clicksFile, nextId>>

\* deleteLink, after getAllLinks
DelRead(p) ==
    /\ Resume(p, "del_read")
    /\ LET links == readJSONFile(linksFile)
           filteredLinks == Filter(links, LAMBDA link : link.id # req[p].id)
       IN  IF Len(filteredLinks) = Len(links)
           THEN Reply(p, Response(500))
           ELSE Await(p, "del_write_links", [loc[p] EXCEPT !.links = filteredLinks])
    /\ UNCHANGED <<linksFile, clicksFile, nextId>>

\* deleteLink, after writeJSONFile(LINKS_FILE)
DelWriteLinks(p) ==
    /\ Resume(p, "del_write_links")
    /\ IF fault
       THEN Reply(p, Response(500)) /\ UNCHANGED linksFile
       ELSE linksFile' = loc[p].links /\ Await(p, "del_read_clicks", EmptyLoc)
    /\ UNCHANGED <<clicksFile, nextId>>

\* deleteLink without the cascade: the clicks are left as they are
deleteLinkClicks_kept(clicks, id) == clicks

\* clicks.filter(click => click.linkId !== id)
deleteLinkClicks(clicks, id) == Filter(clicks, LAMBDA click : click.linkId # id)

\* deleteLink, after getAllClicks
DelReadClicks(p) ==
    /\ Resume(p, "del_read_clicks")
    /\ Await(p, "del_write_clicks",
             [loc[p] EXCEPT !.clicks =
                 deleteLinkClicks(readJSONFile(clicksFile), req[p].id)])
    /\ UNCHANGED <<linksFile, clicksFile, nextId>>

\* deleteLink, after writeJSONFile(CLICKS_FILE); the handler answers
DelWriteClicks(p) ==
    /\ Resume(p, "del_write_clicks")
    /\ IF fault
       THEN Reply(p, Response(500)) /\ UNCHANGED clicksFile
       ELSE clicksFile' = loc[p].clicks /\ Reply(p, Response(200))
    /\ UNCHANGED <<linksFile, nextId>>

----------------------------------------------------------------------------
(* GET /r/{shortCode}: src/src/app/r/[shortCode]/route.ts *)

\* request.headers.get('user-agent') || ''
UserAgentOf(r) == IF r.userAgent = Undefined THEN "" ELSE r.userAgent

\* the password gate without the comparison: any password given is accepted
PasswordRejected_missingOnly(link, password) ==
    \/ password = Undefined
    \/ password = ""

\* !password || link.password !== password
PasswordRejected(link, password) ==
    \/ password = Undefined
    \/ password = ""
    \/ link.password # password

BeginRedirect(p) ==
    \E code \in AskedCodes, v \in Visitors :
        /\ Receive(p, [kind |-> "GET_R", shortCode |-> code, password |-> v[1],
                       userAgent |-> v[2], referer |-> v[3]])
        /\ Await(p, "resolve", EmptyLoc)
        /\ UNCHANGED <<linksFile, clicksFile, nextId, fault, faultsLeft>>

\* GET, after getLinkByShortCode: the gates, and the call of trackClick up to
\* its await of getIPGeolocation
Resolve(p) ==
    /\ Resume(p, "resolve")
    /\ LET found == getLinkByShortCode(readJSONFile(linksFile), req[p].shortCode)
           link == found[1]
       IN  IF found = None
           THEN Reply(p, Response(404))
           ELSE IF ~link.isActive
           THEN Reply(p, Response(410))
           ELSE IF isLinkExpired(link, now)
           THEN Reply(p, Response(410))
           ELSE IF isPasswordProtected(link)
                   /\ PasswordRejected(link, req[p].password)
           THEN Reply(p, Response(200))
           ELSE IF isBot(UserAgentOf(req[p]))
           THEN Reply(p, Redirect(link.originalUrl))
           ELSE Await(p, "geo", [loc[p] EXCEPT !.link = found])
    /\ UNCHANGED <<linksFile, clicksFile, nextId>>

\* a visitor with one of DeviceUserAgents, no password and no referer
BeginVisit(p) ==
    \E code \in AskedCodes, ua \in DeviceUserAgents :
        /\ Receive(p, [kind |-> "GET_R", shortCode |-> code, password |-> Undefined,
                       userAgent |-> ua, referer |-> Undefined])
        /\ Await(p, "resolve", EmptyLoc)
        /\ UNCHANGED <<linksFile, clicksFile, nextId, fault, faultsLeft>>

\* the location getIPGeolocation resolves to: populated, or the error variant
GeoResults == Countries \cup {Undefined}

\* trackClick, after getIPGeolocation: it builds the click and calls addClick
Geo(p) ==
    /\ Resume(p, "geo")
    /\ \E country \in GeoResults :
          /\ Await(p, "add_read",
                   [loc[p] EXCEPT !.click =
                       Some([id |-> nextId,
                             linkId |-> loc[p].link[1].id,
                             shortCode |-> req[p].shortCode,
                             timestamp |-> now,
                             userAgent |-> UserAgentOf(req[p]),
                             referer |-> req[p].referer,
                             country |-> country,
                             device |-> parseUserAgent(UserAgentOf(req[p])),
                             sessionId |-> generateSessionId(nextId)])])
    /\ nextId' = nextId + 1
    /\ UNCHANGED <<linksFile, clicksFile>>

\* the response of GET once trackClick has returned
Redirected(p) == Reply(p, Redirect(loc[p].link[1].originalUrl))

\* trackClick without its catch: the error reaches the catch of GET
TrackingFailed_uncaught(p) == Reply(p, Response(500))

\* trackClick catches the error of a failed write and returns
TrackingFailed(p) == Redirected(p)

\* addClick, after getAllClicks
AddRead(p) ==
    /\ Resume(p, "add_read")
    /\ Await(p, "add_write", [loc[p] EXCEPT !.clicks = readJSONFile(clicksFile)])
    /\ UNCHANGED <<linksFile, clicksFile, nextId>>

\* addClick, after writeJSONFile
AddWrite(p) ==
    /\ Resume(p, "add_write")
    /\ IF fault
       THEN TrackingFailed(p) /\ UNCHANGED clicksFile
       ELSE /\ clicksFile' = Append(loc[p].clicks, loc[p].click[1])
            /\ Await(p, "stat_read", loc[p])
    /\ UNCHANGED <<linksFile, nextId>>

\* updateLinkStats, after getClicksByLinkId
StatRead(p) ==
    /\ Resume(p, "stat_read")
    /\ Await(p, "stat_upd_read",
             [loc[p] EXCEPT !.updates =
                 Some(StatsOf(getClicksByLinkId(readJSONFile(clicksFile),
                                                loc[p].click[1].linkId)))])
    /\ UNCHANGED <<linksFile, clicksFile, nextId>>

\* updateLink called by updateLinkStats, after getAllLinks
StatUpdRead(p) ==
    /\ Resume(p, "stat_upd_read")
    /\ LET merged == updateLinkMerge(readJSONFile(linksFile),
                                     loc[p].click[1].linkId,
                                     loc[p].updates[1], now)
       IN  IF merged = None
           THEN Redirected(p)
           ELSE Await(p, "stat_upd_write", [loc[p] EXCEPT !.links = merged[1]])
    /\ UNCHANGED <<linksFile, clicksFile, nextId>>

\* updateLink called by updateLinkStats, after writeJSONFile; GET answers
StatUpdWrite(p) ==
    /\ Resume(p, "stat_upd_write")
    /\ IF fault
       THEN TrackingFailed(p) /\ UNCHANGED linksFile
       ELSE Redirected(p) /\ linksFile' = loc[p].links
    /\ UNCHANGED <<clicksFile, nextId>>

----------------------------------------------------------------------------
(* GET /api/analytics and getAnalyticsOverview: src/src/lib/database.ts *)

\* Array.prototype.slice(0, n) that keeps every element
slice_all(s, n) == s

\* Array.prototype.slice(0, n)
slice(s, n) == SubSeq(s, 1, IF Len(s) < n THEN Len(s) ELSE n)

\* Array.prototype.sort with the comparison b - a of the keys key[i] of the
\* elements s[i]: descending, elements of equal keys in their order in s
SortDescending(s, key) ==
    LET before(i) == {j \in 1..Len(s) : key[j] > key[i] \/ (key[j] = key[i] /\ j < i)}
    IN  [k \in 1..Len(s) |->
            s[CHOOSE i \in 1..Len(s) : Cardinality(before(i)) + 1 = k]]

\* a value that is not undefined and not the empty string
Truthy(v) == v # Undefined /\ v # ""

\* how many links topPerformingLinks holds, and clicks recentActivity
TopLinks == 5
RecentActivity == 10

\* linkClickCounts: an entry for each link, by totalClicks descending
topPerformingLinks(links) ==
    LET counts == [i \in 1..Len(links) |->
                      [id |-> links[i].id,
                       title |-> IF Truthy(links[i].title) THEN links[i].title
                                 ELSE links[i].originalUrl,
                       shortCode |-> links[i].shortCode,
                       clicks |-> links[i].totalClicks]]
    IN  slice(SortDescending(counts, [i \in 1..Len(counts) |-> counts[i].clicks]),
              TopLinks)

\* recentClicks of the overview: the latest clicks, by timestamp descending;
\* the location of a click is its country, the model has no city
recentActivity(clicks) ==
    LET sorted == slice(SortDescending(clicks,
                                       [i \in 1..Len(clicks) |-> clicks[i].timestamp]),
                        RecentActivity)
    IN  [k \in 1..Len(sorted) |->
            [linkId |-> sorted[k].linkId,
             shortCode |-> sorted[k].shortCode,
             clicks |-> 1,
             timestamp |-> sorted[k].timestamp,
             location |-> sorted[k].country]]

\* the overview getAnalyticsOverview computes from the links and the clicks
\* it has read; the counts over the last day, week and month are left out
Overview(links, clicks) ==
    [totalLinks |-> Len(links),
     totalClicks |-> Len(clicks),
     uniqueClicks |-> Cardinality({clicks[i].sessionId : i \in 1..Len(clicks)}),
     topPerformingLinks |-> topPerformingLinks(links),
     recentActivity |-> recentActivity(clicks)]

BeginOverview(p) ==
    /\ Receive(p, [kind |-> "GET_OVERVIEW"])
    /\ Await(p, "ov_links", EmptyLoc)
    /\ UNCHANGED <<linksFile, clicksFile, nextId, fault, faultsLeft>>

\* getAnalyticsOverview, after getAllLinks
OvLinks(p) ==
    /\ Resume(p, "ov_links")
    /\ Await(p, "ov_clicks", [loc[p] EXCEPT !.links = readJSONFile(linksFile)])
    /\ UNCHANGED <<linksFile, clicksFile, nextId>>

\* getAnalyticsOverview, after getAllClicks; the handler answers
OvClicks(p) ==
    /\ Resume(p, "ov_clicks")
    /\ Reply(p, Json(200, Some(Overview(loc[p].links, readJSONFile(clicksFile)))))
    /\ UNCHANGED <<linksFile, clicksFile, nextId>>

----------------------------------------------------------------------------
(* getLinkStats: src/src/lib/database.ts *)

\* clock ticks in a calendar day
TicksPerDay == 2

\* timestamp.split('T')[0]
DateOf(t) == t \div TicksPerDay

\* click.referer || 'Direct'
RefererOf(click) == IF Truthy(click.referer) THEN click.referer ELSE "Direct"

\* the clicks counted in clicksByCountry: if (click.location.country)
CountryClicks(clicks) == Filter(clicks, LAMBDA click : Truthy(click.country))

clicksByDate(clicks) ==
    [d \in {DateOf(clicks[i].timestamp) : i \in 1..Len(clicks)} |->
        Cardinality({i \in 1..Len(clicks) : DateOf(clicks[i].timestamp) = d})]

clicksByCountry(clicks) ==
    LET counted == CountryClicks(clicks)
    IN  [c \in {counted[i].country : i \in 1..Len(counted)} |->
            Cardinality({i \in 1..Len(counted) : counted[i].country = c})]

clicksByDevice(clicks) ==
    [d \in {clicks[i].device.type : i \in 1..Len(clicks)} |->
        Cardinality({i \in 1..Len(clicks) : clicks[i].device.type = d})]

clicksByBrowser(clicks) ==
    [b \in {clicks[i].device.browser : i \in 1..Len(clicks)} |->
        Cardinality({i \in 1..Len(clicks) : clicks[i].device.browser = b})]

clicksByReferer(clicks) ==
    [r \in {RefererOf(clicks[i]) : i \in 1..Len(clicks)} |->
        Cardinality({i \in 1..Len(clicks) : RefererOf(clicks[i]) = r})]

\* Object.entries(clicksByCountry): the countries in the order they were
\* first counted in
CountryEntries(clicks) ==
    LET counted == CountryClicks(clicks)
        first == {i \in 1..Len(counted) :
                     \A j \in 1..(i - 1) : counted[j].country # counted[i].country}
    IN  [k \in 1..Cardinality(first) |->
            counted[CHOOSE i \in first :
                        Cardinality({j \in first : j <= i}) = k].country]

\* the quotient of a division by zero: Infinity, which JSON has no number for
Infinity == 1000000

\* (clicks / link.totalClicks) * 100, rounded down
Percentage(clicks, totalClicks) ==
    IF totalClicks = 0 THEN Infinity ELSE (clicks * 100) \div totalClicks

\* how many countries topLocations holds, and clicks recentClicks
TopLocations == 10
RecentClicks == 50

topLocations(link, clicks) ==
    LET countries == CountryEntries(clicks)
        byCountry == clicksByCountry(clicks)
        entries == [k \in 1..Len(countries) |->
                       [country |-> countries[k],
                        clicks |-> byCountry[countries[k]],
                        percentage |-> Percentage(byCountry[countries[k]],
                                                  link.totalClicks)]]
    IN  slice(SortDescending(entries, [k \in 1..Len(entries) |-> entries[k].clicks]),
              TopLocations)

\* the LinkStats getLinkStats computes from the link and the clicks it has
\* read; averageClicksPerDay is left out
LinkStats(link, clicks) ==
    [linkId |-> link.id,
     totalClicks |-> link.totalClicks,
     uniqueClicks |-> Cardinality({clicks[i].sessionId : i \in 1..Len(clicks)}),
     clicksByDate |-> clicksByDate(clicks),
     clicksByCountry |-> clicksByCountry(clicks),
     clicksByDevice |-> clicksByDevice(clicks),
     clicksByBrowser |-> clicksByBrowser(clicks),
     clicksByReferer |-> clicksByReferer(clicks),
     topLocations |-> topLocations(link, clicks),
     recentClicks |-> slice(SortDescending(clicks,
                                [i \in 1..Len(clicks) |-> clicks[i].timestamp]),
                            RecentClicks)]

----------------------------------------------------------------------------
(* GET /api/links: src/unnamed/part_001 *)

BeginList(p) ==
    /\ Receive(p, [kind |-> "GET_LIST"])
    /\ Await(p, "list_get", EmptyLoc)
    /\ UNCHANGED <<linksFile, clicksFile, nextId, fault, faultsLeft>>

\* GET, after getAllLinks
ListGet(p) ==
    /\ Resume(p, "list_get")
    /\ LET links == readJSONFile(linksFile)
       IN  Reply(p, Json(200, [i \in 1..Len(links) |-> StripPassword(links[i])]))
    /\ UNCHANGED <<linksFile, clicksFile, nextId>>

----------------------------------------------------------------------------
(* GET /api/links/{id}: src/unnamed/part_002 *)

\* response.data.stats = stats
WithStats(data, stats) ==
    [f \in DOMAIN data \cup {"stats"} |-> IF f = "stats" THEN stats ELSE data[f]]

BeginLink(p) ==
    \E id \in KnownIds, includeStats \in BOOLEAN :
        /\ Receive(p, [kind |-> "GET_LINK", id |-> id, includeStats |-> includeStats])
        /\ Await(p, "link_get", EmptyLoc)
        /\ UNCHANGED <<linksFile, clicksFile, nextId, fault, faultsLeft>>

\* GET, after getLinkById
LinkGet(p) ==
    /\ Resume(p, "link_get")
    /\ LET found == getLinkById(readJSONFile(linksFile), req[p].id)
       IN  IF found = None
           THEN Reply(p, Response(404))
           ELSE IF ~req[p].includeStats
           THEN Reply(p, Json(200, Some(StripPassword(found[1]))))
           ELSE Await(p, "stats_get", [loc[p] EXCEPT !.link = found])
    /\ UNCHANGED <<linksFile, clicksFile, nextId>>

\* getLinkStats, after getLinkById: null when the link is not found
StatsGet(p) ==
    /\ Resume(p, "stats_get")
    /\ LET found == getLinkById(readJSONFile(linksFile), req[p].id)
       IN  IF found = None
           THEN Reply(p, Json(200, Some(WithStats(StripPassword(loc[p].link[1]),
                                                  None))))
           ELSE Await(p, "stats_clicks", [loc[p] EXCEPT !.links = found])
    /\ UNCHANGED <<linksFile, clicksFile, nextId>>

\* getLinkStats, after getClicksByLinkId; GET answers
StatsClicks(p) ==
    /\ Resume(p, "stats_clicks")
    /\ LET clicks == getClicksByLinkId(readJSONFile(clicksFile), req[p].id)
           stats == LinkStats(loc[p].links[1], clicks)
       IN  Reply(p, Json(200, Some(WithStats(StripPassword(loc[p].link[1]),
                                             Some(stats)))))
    /\ UNCHANGED <<linksFile, clicksFile, nextId>>

----------------------------------------------------------------------------
(* Specifications *)

\* a file operation is going to fail
InjectFault ==
    /\ faultsLeft > 0
    /\ ~fault
    /\ \E p \in Slots : ~Idle(p) /\ ~Done(p)
    /\ fault' = TRUE
    /\ faultsLeft' = faultsLeft - 1
    /\ UNCHANGED <<linksFile, clicksFile, now, nextId, pc, req, loc, resp, pre, quota,
                   recording, deleted>>

Begin(p) ==
    \/ BeginPost(p)
    \/ BeginPut(p)
    \/ BeginDelete(p)
    \/ BeginRedirect(p)

Step(p) ==
    \/ GenCustom(p)
    \/ GenRandom(p)
    \/ GenLonger(p)
    \/ CreateRead(p)
    \/ CreateWrite(p)
    \/ PutGet(p)
    \/ UpdRead(p)
    \/ UpdWrite(p)
    \/ PutGet2(p)
    \/ DelGet(p)
    \/ DelRead(p)
    \/ DelWriteLinks(p)
    \/ DelReadClicks(p)
    \/ DelWriteClicks(p)
    \/ Resolve(p)
    \/ Geo(p)
    \/ AddRead(p)
    \/ AddWrite(p)
    \/ StatRead(p)
    \/ StatUpdRead(p)
    \/ StatUpdWrite(p)
    \/ Close(p)

\* every slot is free: no request is in flight
AllIdle == \A q \in Slots : Idle(q)

\* requests overlap: a handler runs up to its next await, then any other may
Next == \E p \in Slots : Begin(p) \/ Step(p)

Spec == Init /\ [][Next]_vars

\* one request at a time
InitSeq == InitWith(MaxSeqReqs, 0, TRUE)
NextSeq == \E p \in Slots : (AllIdle /\ Begin(p)) \/ Step(p)
SpecSeq == InitSeq /\ [][NextSeq]_vars

\* one request at a time, and file operations that fail
InitFault == InitWith(MaxReqs, MaxFaults, TRUE)
NextFault == NextSeq \/ InjectFault
SpecFault == InitFault /\ [][NextFault]_vars

\* no request that writes to the store is in flight
Reading(q) == req[q].kind \in {"GET_OVERVIEW", "GET_LIST", "GET_LINK"}
NoWriter == \A q \in Slots : Idle(q) \/ Reading(q)

\* One writing request at a time, and requests for the overview, which only
\* read, running with it.
InitRead == InitWith(MaxReadReqs, 0, FALSE)
NextRead ==
    \E p \in Slots :
        \/ NoWriter /\ Begin(p)
        \/ BeginOverview(p)
        \/ BeginLink(p)
        \/ Step(p)
        \/ OvLinks(p)
        \/ OvClicks(p)
        \/ LinkGet(p)
        \/ StatsGet(p)
        \/ StatsClicks(p)
SpecRead == InitRead /\ [][NextRead]_vars

\* One request at a time, those of the link API that only read among them.
InitApi == InitWith(MaxApiReqs, 0, TRUE)
NextApi ==
    \E p \in Slots :
        \/ AllIdle /\ Begin(p)
        \/ AllIdle /\ BeginList(p)
        \/ AllIdle /\ BeginLink(p)
        \/ Step(p)
        \/ ListGet(p)
        \/ LinkGet(p)
        \/ StatsGet(p)
        \/ StatsClicks(p)
SpecApi == InitApi /\ [][NextApi]_vars

\* The stores the overview is computed from: n links, link i with profile[i]
\* clicks, stored link after link; the k-th stored click has the timestamp
\* StampOf(k, r), so that clicks are stored in and out of the order of their
\* timestamps; the counters of each link count its clicks.
ClickProfiles == UNION {[1..n -> 0..MaxLinkClicks] : n \in 0..MaxOvLinks}
StampPatterns == 0..MaxTime
StampOf(k, r) == (k * r) % (MaxTime + 1)

RECURSIVE ProfileSum(_, _)
ProfileSum(profile, n) ==
    IF n = 0 THEN 0 ELSE profile[n] + ProfileSum(profile, n - 1)

OwnerOf(profile, k) ==
    CHOOSE i \in 1..Len(profile) :
        ProfileSum(profile, i - 1) < k /\ k <= ProfileSum(profile, i)

CodeOf(i) == Rep(CharAt(CHARACTERS, i), SHORT_CODE_LENGTH)

StoredClicks(profile, r) ==
    [k \in 1..ProfileSum(profile, Len(profile)) |->
        [id |-> Len(profile) + k,
         linkId |-> OwnerOf(profile, k),
         shortCode |-> CodeOf(OwnerOf(profile, k)),
         timestamp |-> StampOf(k, r),
         userAgent |-> UA_browser,
         referer |-> Undefined,
         country |-> "FR",
         device |-> parseUserAgent(UA_browser),
         sessionId |-> generateSessionId(Len(profile) + k)]]

StoredLinks(profile, clicks) ==
    [i \in 1..Len(profile) |->
        LET link == createTrackingLink(Url_ok, CodeOf(i),
                        [title |-> IF i % 2 = 0 THEN "t" ELSE Undefined,
                         description |-> Undefined, expiresAt |-> NoTime,
                         password |-> Undefined], i, 0)
            stats == StatsOf(getClicksByLinkId(clicks, i))
        IN  [link EXCEPT !.totalClicks = stats.totalClicks,
                         !.uniqueClicks = stats.uniqueClicks,
                         !.lastClickAt = stats.lastClickAt]]

\* Requests for the overview of a store of links and clicks.
InitOverview ==
    /\ \E profile \in ClickProfiles, r \in StampPatterns :
          /\ clicksFile = StoredClicks(profile, r)
          /\ linksFile = StoredLinks(profile, StoredClicks(profile, r))
          /\ nextId = Len(profile) + ProfileSum(profile, Len(profile)) + 1
    /\ now = MaxTime
    /\ pc = [p \in Slots |-> "idle"]
    /\ req = [p \in Slots |-> [kind |-> "none"]]
    /\ loc = [p \in Slots |-> EmptyLoc]
    /\ resp = [p \in Slots |-> NoResponse]
    /\ pre = [p \in Slots |-> NoSnapshot]
    /\ fault = FALSE
    /\ faultsLeft = 0
    /\ quota = MaxOvReqs
    /\ recording = FALSE
    /\ deleted = {}
NextOverview ==
    \E p \in Slots :
        \/ BeginOverview(p)
        \/ OvLinks(p)
        \/ OvClicks(p)
        \/ Close(p)
SpecOverview == InitOverview /\ [][NextOverview]_vars

\* One request at a time: links are created and visited with the user agents
\* of DeviceUserAgents.
InitDevice == InitWith(MaxDeviceReqs, 0, FALSE)
NextDevice ==
    \E p \in Slots :
        \/ AllIdle /\ BeginPost(p)
        \/ AllIdle /\ BeginVisit(p)
        \/ GenCustom(p)
        \/ GenRandom(p)
        \/ GenLonger(p)
        \/ CreateRead(p)
        \/ CreateWrite(p)
        \/ Resolve(p)
        \/ Geo(p)
        \/ AddRead(p)
        \/ AddWrite(p)
        \/ StatRead(p)
        \/ StatUpdRead(p)
        \/ StatUpdWrite(p)
        \/ Close(p)
SpecDevice == InitDevice /\ [][NextDevice]_vars

\* A step of the handler of slot p that does not wait for the geolocation
\* service: the event loop runs the continuation of every file operation.
LocalStep(p) == pc[p] # "geo" /\ Step(p)

\* One request at a time.  Every continuation of a file operation is run in
\* the end; the answer of the geolocation service, which Geo waits for, may
\* never come.
Fairness == \A p \in Slots : WF_vars(LocalStep(p))
InitLive == InitWith(MaxLiveReqs, 0, FALSE)
SpecLive == InitLive /\ [][NextSeq]_vars /\ Fairness

----------------------------------------------------------------------------
(* Properties *)

LinkIndexes == 1..Len(linksFile)
ClickIndexes == 1..Len(clicksFile)

\* the handler of slot p is inside addClick
InsertInProgress(p) ==
    pc[p] \in {"add_read", "add_write", "stat_read", "stat_upd_read", "stat_upd_write"}

\* the counters of link are those its clicks in the list clicks give
CountersMatch(link, clicks) ==
    LET own == getClicksByLinkId(clicks, link.id)
    IN  /\ link.totalClicks = Len(own)
        /\ link.uniqueClicks = Cardinality({own[i].sessionId : i \in 1..Len(own)})

\* C1: no two stored links have the same shortCode, whatever requests to
\* create links have run or are running.
C1_ShortCodesUnique ==
    \A i, j \in LinkIndexes :
        i # j => linksFile[i].shortCode # linksFile[j].shortCode

\* C2: in every state where no click insert is in progress, each stored link's
\* totalClicks is the number of stored clicks of the link and its uniqueClicks
\* the number of their distinct session ids.
C2_CountersMatchClicks ==
    (\A p \in Slots : ~InsertInProgress(p)) =>
        \A i \in LinkIndexes : CountersMatch(linksFile[i], clicksFile)

\* C3: with one request at a time (a single writer), the two files never hold
\* a state a reader could see in which a click is recorded and its link's
\* totalClicks, uniqueClicks and lastClickAt do not reflect it.
C3_InsertAtomic ==
    \A i \in LinkIndexes :
        LET own == getClicksByLinkId(clicksFile, linksFile[i].id)
        IN  /\ CountersMatch(linksFile[i], clicksFile)
            /\ own # <<>> => linksFile[i].lastClickAt = own[Len(own)].timestamp

\* C4: no step drops or alters a recorded click whose link is still stored
\* after the step.
C4_ClicksKept ==
    [][\A i \in ClickIndexes :
          (\E k \in 1..Len(linksFile') : linksFile'[k].id = clicksFile[i].linkId)
              => \E j \in 1..Len(clicksFile') : clicksFile'[j] = clicksFile[i]]_vars

\* C5: whenever no request is in flight, no stored click is left with the
\* linkId of a link that deleteLink has removed: redirect requests running
\* with deleteLink leave no orphaned click.
C5_NoOrphanClicks ==
    AllIdle =>
        \A i \in ClickIndexes :
            \/ \E k \in LinkIndexes : linksFile[k].id = clicksFile[i].linkId
            \/ clicksFile[i].linkId \notin deleted

\* the request of slot p, of the given kind, has been answered
Answered(p, kind) == Done(p) /\ req[p].kind = kind

\* the link /r/{shortCode} stood for when the request of slot p arrived
AskedLink(p) ==
    LET links == pre[p].links
    IN  IF \E i \in 1..Len(links) : links[i].shortCode = req[p].shortCode
        THEN Some(links[CHOOSE i \in 1..Len(links) :
                            links[i].shortCode = req[p].shortCode])
        ELSE None

\* the two files are as they were when the request of slot p arrived
StoreUntouched(p) == linksFile = pre[p].links /\ clicksFile = pre[p].clicks

\* link is active and its expiresAt is not a time before the clock
Redirectable(link) ==
    /\ link.isActive
    /\ link.expiresAt \in {NoTime, InvalidDate} \/ link.expiresAt >= now
\* link has a password that is not empty
HasPassword(link) == link.password # Undefined /\ link.password # ""

\* the user agents of Visitors that are browsers, not bots
IsBrowser(ua) == ua \in {UA_browser, Undefined}

\* C6: a DELETE of a stored link answers 200, and then no link has the id, no
\* click has it as linkId, and the other links and clicks are as they were;
\* a DELETE of an unknown id does not answer 200 and changes nothing.
C6_DeleteCascades ==
    \A p \in Slots :
        Answered(p, "DELETE") =>
            LET id == req[p].id
                known == \E i \in 1..Len(pre[p].links) : pre[p].links[i].id = id
            IN  IF known
                THEN /\ resp[p].status = 200
                     /\ \A k \in LinkIndexes : linksFile[k].id # id
                     /\ \A j \in ClickIndexes : clicksFile[j].linkId # id
                     /\ linksFile = SelectSeq(pre[p].links, LAMBDA l : l.id # id)
                     /\ clicksFile = SelectSeq(pre[p].clicks, LAMBDA c : c.linkId # id)
                ELSE resp[p].status # 200 /\ StoreUntouched(p)

\* a link with a click has been deleted while another link is stored
C6_Witness ==
    \E p \in Slots :
        /\ Answered(p, "DELETE")
        /\ resp[p].status = 200
        /\ \E j \in 1..Len(pre[p].clicks) : pre[p].clicks[j].linkId = req[p].id
        /\ linksFile # <<>>

\* C7: a request for a redirectable link with a password is answered 302 only
\* if its password parameter is the stored password; with another or none it
\* is answered 200 and the store is as before; with the stored password and a
\* browser's user agent it is answered 302, one click is added and the link's
\* totalClicks is one more.
C7_PasswordGate ==
    \A p \in Slots :
        (/\ Answered(p, "GET_R")
         /\ AskedLink(p) # None
         /\ Redirectable(AskedLink(p)[1])
         /\ HasPassword(AskedLink(p)[1])) =>
            LET link == AskedLink(p)[1]
                after == getLinkById(linksFile, link.id)
            IN  /\ resp[p].status = 302 => req[p].password = link.password
                /\ req[p].password # link.password =>
                      resp[p].status = 200 /\ StoreUntouched(p)
                /\ (req[p].password = link.password /\ IsBrowser(req[p].userAgent)) =>
                      /\ resp[p].status = 302
                      /\ Len(clicksFile) = Len(pre[p].clicks) + 1
                      /\ after # None
                      /\ after[1].totalClicks = link.totalClicks + 1

\* the right password has opened a protected link and the click is counted
C7_Witness ==
    \E p \in Slots :
        /\ Answered(p, "GET_R")
        /\ AskedLink(p) # None
        /\ HasPassword(AskedLink(p)[1])
        /\ req[p].password = AskedLink(p)[1].password
        /\ resp[p].status = 302
        /\ Len(clicksFile) = Len(pre[p].clicks) + 1

\* C8: a request for a short code no link has is answered 404; one for a link
\* that is inactive or whose expiresAt is before the clock is answered 410; in
\* both cases the store is as before; a link without expiresAt is never
\* answered 410 while it is active.
C8_NotFoundAndGone ==
    \A p \in Slots :
        Answered(p, "GET_R") =>
            /\ AskedLink(p) = None => resp[p].status = 404 /\ StoreUntouched(p)
            /\ AskedLink(p) # None =>
                 LET link == AskedLink(p)[1]
                 IN  /\ (\/ ~link.isActive
                         \/ (link.expiresAt >= 0 /\ link.expiresAt < now)) =>
                            resp[p].status = 410 /\ StoreUntouched(p)
                     /\ (link.isActive /\ link.expiresAt = NoTime) =>
                            resp[p].status # 410

\* an active link has expired and a request for it is answered 410
C8_Witness ==
    \E p \in Slots :
        /\ Answered(p, "GET_R")
        /\ AskedLink(p) # None
        /\ AskedLink(p)[1].isActive
        /\ AskedLink(p)[1].expiresAt >= 0
        /\ AskedLink(p)[1].expiresAt < now
        /\ resp[p].status = 410

\* C9: a request with a bot's user agent that passes the gates is answered
\* 302 to originalUrl and the store is as before.
C9_BotsAreNotTracked ==
    \A p \in Slots :
        (/\ Answered(p, "GET_R")
         /\ req[p].userAgent = UA_bot
         /\ AskedLink(p) # None
         /\ Redirectable(AskedLink(p)[1])
         /\ HasPassword(AskedLink(p)[1]) =>
               req[p].password = AskedLink(p)[1].password) =>
            /\ resp[p] = Redirect(AskedLink(p)[1].originalUrl)
            /\ StoreUntouched(p)

\* a bot has been redirected by a link that has clicks of browsers
C9_Witness ==
    \E p \in Slots :
        /\ Answered(p, "GET_R")
        /\ req[p].userAgent = UA_bot
        /\ resp[p].status = 302
        /\ pre[p].clicks # <<>>

\* the awaits of trackClick
TrackingLabels ==
    {"geo", "add_read", "add_write", "stat_read", "stat_upd_read", "stat_upd_write"}

\* C10: a request that has passed the gates and is tracked is answered 302 to
\* originalUrl however trackClick ends, with the click stored or with a
\* failed file operation.
C10_RedirectSurvivesTracking ==
    [][\A p \in Slots :
          (pc[p] \in TrackingLabels /\ pc'[p] = "done") =>
              resp'[p] = Redirect(loc[p].link[1].originalUrl)]_vars

\* a browser has been redirected although its click was not stored
C10_Witness ==
    \E p \in Slots :
        /\ Answered(p, "GET_R")
        /\ IsBrowser(req[p].userAgent)
        /\ resp[p].status = 302
        /\ faultsLeft < MaxFaults
        /\ clicksFile = pre[p].clicks

\* C11: tracking is fire-and-forget: while the click insert and the counter
\* update of a tracked request are still to complete, its 302 has already been
\* issued, so the response never waits for them.
C11_FireAndForget ==
    \A p \in Slots : pc[p] \in TrackingLabels => resp[p].status = 302

\* C12: a request that resolved to a redirectable link and is tracked gets its
\* response in the end, also when the geolocation service never answers.
C12_RedirectNotBlocked ==
    \A p \in Slots : (pc[p] \in TrackingLabels) ~> Done(p)

\* C13: createLink called with a link whose shortCode a link of the collection
\* it has read already has does not write: the links are left as they are
\* and the request is not answered 201.
C13_InsertLinkConflict ==
    [][\A p \in Slots :
          (/\ pc[p] = "create_write"
           /\ \E i \in 1..Len(loc[p].links) :
                  loc[p].links[i].shortCode = loc[p].link[1].shortCode) =>
              linksFile' = linksFile /\ resp'[p].status # 201]_vars

\* the short codes of the links in the list links
CodesOf(links) == {links[i].shortCode : i \in 1..Len(links)}

\* the body of the POST of slot p passes the validation of the handler
ValidPost(p) ==
    /\ validateCreateLinkData(req[p].body, now)
    /\ isValidUrl(req[p].body.originalUrl)
    /\ req[p].body.customCode # Undefined => isValidCustomCode(req[p].body.customCode)

\* one link has been appended to the links, with the short code code
Created(p, code) ==
    /\ resp[p].status = 201
    /\ resp[p].data # None
    /\ resp[p].data[1].shortCode = code
    /\ Len(linksFile) = Len(pre[p].links) + 1
    /\ SubSeq(linksFile, 1, Len(pre[p].links)) = pre[p].links
    /\ linksFile[Len(linksFile)].shortCode = code
    /\ clicksFile = pre[p].clicks

\* C14: a valid POST with a customCode no link has creates the link under
\* that very code; with a customCode a link has, it is answered 409 and the
\* store is as before.
C14_CustomCode ==
    \A p \in Slots :
        (/\ Answered(p, "POST")
         /\ req[p].body.customCode # Undefined
         /\ ValidPost(p)) =>
            IF req[p].body.customCode \in CodesOf(pre[p].links)
            THEN resp[p].status = 409 /\ StoreUntouched(p)
            ELSE Created(p, req[p].body.customCode)

\* a POST with a customCode a link has is answered 409
C14_Witness ==
    \E p \in Slots :
        /\ Answered(p, "POST")
        /\ req[p].body.customCode \in CodesOf(pre[p].links)
        /\ resp[p].status = 409

\* code is made of characters of CHARACTERS
Alphanumeric(code) ==
    \A i \in 1..Len(code) : Contains(CHARACTERS, CharAt(code, i))

\* a code of the given length is the short code of a link of links
SomeCodeTaken(links, length) ==
    \E code \in CodesOf(links) : Len(code) = length

\* C15 as stated: a valid POST without customCode is answered 201 with a new
\* code of length 8 over CHARACTERS that no link had, or 500 with the store
\* as before.
C15_RandomCodeLength8 ==
    \A p \in Slots :
        (/\ Answered(p, "POST")
         /\ req[p].body.customCode = Undefined
         /\ ValidPost(p)) =>
            \/ /\ resp[p].status = 500
               /\ StoreUntouched(p)
            \/ \E code \in CodesOf(linksFile) \ CodesOf(pre[p].links) :
                  /\ Created(p, code)
                  /\ Alphanumeric(code)
                  /\ Len(code) = SHORT_CODE_LENGTH

\* C15: a valid POST without customCode is answered 201 with a new code over
\* CHARACTERS that no link had, of length 8, or of length 10 when a code of
\* length 8 was taken; or it is answered 500, with the store as before, when
\* codes of length 8 and of length 10 were taken.  No code in use is returned.
C15_RandomCode ==
    \A p \in Slots :
        (/\ Answered(p, "POST")
         /\ req[p].body.customCode = Undefined
         /\ ValidPost(p)) =>
            \/ /\ resp[p].status = 500
               /\ StoreUntouched(p)
               /\ SomeCodeTaken(pre[p].links, SHORT_CODE_LENGTH)
               /\ SomeCodeTaken(pre[p].links, SHORT_CODE_LENGTH + 2)
            \/ \E code \in CodesOf(linksFile) \ CodesOf(pre[p].links) :
                  /\ Created(p, code)
                  /\ Alphanumeric(code)
                  /\ \/ Len(code) = SHORT_CODE_LENGTH
                     \/ /\ Len(code) = SHORT_CODE_LENGTH + 2
                        /\ SomeCodeTaken(pre[p].links, SHORT_CODE_LENGTH)

\* ten draws of length 8 have collided and the code of length 10 is returned
C15_Witness ==
    \E p \in Slots :
        /\ Answered(p, "POST")
        /\ req[p].body.customCode = Undefined
        /\ resp[p].status = 201
        /\ Len(resp[p].data[1].shortCode) = SHORT_CODE_LENGTH + 2

\* the session ids of the clicks in the list clicks
SessionsOf(clicks) == {clicks[i].sessionId : i \in 1..Len(clicks)}

\* C16: when a tracked request has been answered and no other request ran,
\* its click c is the last stored click, and the link read by id has
\* totalClicks and uniqueClicks counting c with the link's earlier clicks and
\* lastClickAt = c.timestamp; after the first click of a link these are 1, 1
\* and c.timestamp.
C16_InsertThenRead ==
    \A p \in Slots :
        (/\ Answered(p, "GET_R")
         /\ resp[p].status = 302
         /\ IsBrowser(req[p].userAgent)
         /\ AskedLink(p) # None) =>
            LET id == AskedLink(p)[1].id
                prior == getClicksByLinkId(pre[p].clicks, id)
                c == clicksFile[Len(clicksFile)]
                after == getLinkById(linksFile, id)
            IN  /\ clicksFile = Append(pre[p].clicks, c)
                /\ c.linkId = id
                /\ after # None
                /\ after[1].totalClicks = Len(prior) + 1
                /\ after[1].uniqueClicks =
                      Cardinality(SessionsOf(prior) \cup {c.sessionId})
                /\ after[1].lastClickAt = c.timestamp
                /\ prior = <<>> =>
                      after[1].totalClicks = 1 /\ after[1].uniqueClicks = 1

\* a link's second click, later than its first, has been counted
C16_Witness ==
    \E p \in Slots :
        /\ Answered(p, "GET_R")
        /\ resp[p].status = 302
        /\ AskedLink(p) # None
        /\ LET prior == getClicksByLinkId(pre[p].clicks, AskedLink(p)[1].id)
           IN  /\ prior # <<>>
               /\ prior[1].timestamp < now
               /\ Len(clicksFile) = Len(pre[p].clicks) + 1
               /\ getLinkById(linksFile, AskedLink(p)[1].id)[1].totalClicks = 2

\* C17: a failed read is never taken for an empty collection: a request for a
\* stored short code is not answered 404, and a request that deletes nothing
\* leaves every link and every click that was stored in the store.
C17_FailedReadNotEmpty ==
    \A p \in Slots :
        /\ (Answered(p, "GET_R") /\ AskedLink(p) # None) => resp[p].status # 404
        /\ (Done(p) /\ req[p].kind \in {"POST", "PUT", "GET_R"}) =>
              /\ \A i \in 1..Len(pre[p].links) :
                    \E k \in LinkIndexes : linksFile[k].id = pre[p].links[i].id
              /\ \A j \in 1..Len(pre[p].clicks) :
                    \E k \in ClickIndexes : clicksFile[k].id = pre[p].clicks[j].id

\* the lists links and clicks fit together as they do before and after every
\* write of the store: each click is a click of one of the links, and each
\* link's counters are those its clicks give
Consistent(links, clicks) ==
    /\ \A j \in 1..Len(clicks) :
          \E i \in 1..Len(links) : links[i].id = clicks[j].linkId
    /\ \A i \in 1..Len(links) : CountersMatch(links[i], clicks)

\* C18: the links and the clicks a request for the overview has read, while
\* at most one request was writing, are a state of the store from before or
\* after a write, never a part of one: no click without its link, no link
\* whose counters miss a click.
C18_NoTornRead ==
    [][\A p \in Slots :
          (pc[p] = "ov_clicks" /\ pc'[p] = "done") =>
              Consistent(loc[p].links, clicksFile)]_vars

\* the store itself is in such a state whenever no request is writing
StoreConsistentAtRest == NoWriter => Consistent(linksFile, clicksFile)

\* the fields of a link PUT has no right to change
FrameFields ==
    {"id", "shortCode", "originalUrl", "createdAt",
     "totalClicks", "uniqueClicks", "lastClickAt"}

\* C19: the write of a PUT leaves the clicks, the number and the order of the
\* links, every other link, and the FrameFields of its own link as they are
\* in the store when it writes; updateLink returning false writes nothing.
C19_PutFrame ==
    [][\A p \in Slots :
          /\ (pc[p] = "upd_write" /\ pc'[p] = "put_get2") =>
                /\ clicksFile' = clicksFile
                /\ Len(linksFile') = Len(linksFile)
                /\ \A i \in LinkIndexes :
                      IF linksFile[i].id = req[p].id
                      THEN \A f \in FrameFields : linksFile'[i][f] = linksFile[i][f]
                      ELSE linksFile'[i] = linksFile[i]
          /\ (pc[p] = "upd_read" /\ pc'[p] = "done") =>
                linksFile' = linksFile /\ clicksFile' = clicksFile]_vars

\* t is a valid timestamp strictly later than the clock
StrictlyFuture(t) == t # InvalidDate /\ t > now

\* C20: a POST, or a PUT of a stored link, whose expiresAt is given and is not
\* a valid timestamp strictly later than the time of the request is answered
\* 400 and the store is as before; so no such expiresAt is ever stored.
C20_ExpiresAtFuture ==
    \A p \in Slots :
        /\ (/\ Answered(p, "POST")
            /\ req[p].body.expiresAt # NoTime
            /\ ~StrictlyFuture(req[p].body.expiresAt)) =>
               resp[p].status = 400 /\ StoreUntouched(p)
        /\ (/\ Answered(p, "PUT")
            /\ getLinkById(pre[p].links, req[p].id) # None
            /\ "expiresAt" \in DOMAIN req[p].body
            /\ ~StrictlyFuture(req[p].body.expiresAt)) =>
               resp[p].status = 400 /\ StoreUntouched(p)

\* C21: a POST whose body fails the schema is answered 400 with the messages
\* of the failed checks; a POST that is not answered 201 leaves the store as
\* it was; a POST answered 201 has appended exactly one link, with
\* totalClicks 0, uniqueClicks 0, isActive and no lastClickAt, and has left
\* the other links and the clicks as they were.
C21_PostValidation ==
    \A p \in Slots :
        Answered(p, "POST") =>
            LET errors == ValidationErrors(req[p].body, now)
            IN  /\ errors # <<>> =>
                      resp[p].status = 400 /\ resp[p].data = errors
                /\ resp[p].status # 201 => StoreUntouched(p)
                /\ resp[p].status = 201 =>
                      /\ errors = <<>>
                      /\ linksFile = Append(pre[p].links, linksFile[Len(linksFile)])
                      /\ clicksFile = pre[p].clicks
                      /\ LET link == linksFile[Len(linksFile)]
                         IN  /\ link.totalClicks = 0
                             /\ link.uniqueClicks = 0
                             /\ link.isActive
                             /\ link.lastClickAt = NoTime
                             /\ link.originalUrl = req[p].body.originalUrl

\* a POST with two failed checks is answered 400 with two messages while
\* links are stored
C21_Witness ==
    \E p \in Slots :
        /\ Answered(p, "POST")
        /\ resp[p].status = 400
        /\ Len(resp[p].data) = 2
        /\ linksFile # <<>>

\* C25: every stored link has uniqueClicks = totalClicks, whatever requests
\* have run or are running: each tracked request draws a session id of its
\* own.
C25_UniqueEqualsTotal ==
    \A i \in LinkIndexes : linksFile[i].uniqueClicks = linksFile[i].totalClicks

\* a link has counted two clicks
C25_Witness ==
    \E i \in LinkIndexes :
        /\ linksFile[i].totalClicks = 2
        /\ Len(getClicksByLinkId(clicksFile, linksFile[i].id)) = 2

\* the device type the priority tablet, mobile, desktop, unknown gives a user
\* agent made of the words d, m and t
DeviceByPriority(d, m, t) ==
    IF t # "" THEN "tablet"
    ELSE IF m # "" THEN "mobile"
    ELSE IF d # "" THEN "desktop"
    ELSE "unknown"

\* C26: every stored click of a user agent made of a desktop word, a mobile
\* word and a tablet word has the device type of the first of tablet,
\* mobile, desktop its words name, and unknown when they name none.
C26_DevicePriority ==
    \A j \in ClickIndexes :
        \A d \in DesktopWords, m \in MobileWords, t \in TabletWords :
            clicksFile[j].userAgent = UserAgentWith(d, m, t) =>
                clicksFile[j].device.type = DeviceByPriority(d, m, t)

\* the click of a user agent naming a desktop system, a phone and a tablet
\* is stored as a tablet's
C26_Witness ==
    \E j \in ClickIndexes :
        /\ clicksFile[j].userAgent = UserAgentWith("Windows", "Android", "iPad")
        /\ clicksFile[j].device.type = "tablet"

\* the latest timestamp among the clicks, NoTime when there is none
LatestTimestamp(clicks) ==
    IF clicks = <<>> THEN NoTime
    ELSE CHOOSE t \in {clicks[i].timestamp : i \in 1..Len(clicks)} :
             \A i \in 1..Len(clicks) : clicks[i].timestamp <= t

\* C27: no step of overlapping requests takes a stored link, which its POST
\* has answered 201 for, out of the links, unless deleteLink has removed the
\* link: the link stays retrievable by its id and its short code.
C27_CreatedLinkKept ==
    [][\A i \in LinkIndexes :
          linksFile[i].id \notin deleted' =>
              \E k \in 1..Len(linksFile') :
                  /\ linksFile'[k].id = linksFile[i].id
                  /\ linksFile'[k].shortCode = linksFile[i].shortCode]_vars

\* C28: no step of overlapping requests lowers the totalClicks of a link that
\* is stored before and after the step and that no deleteLink has removed.
C28_TotalClicksMonotonic ==
    [][\A i \in LinkIndexes : \A k \in 1..Len(linksFile') :
          /\ linksFile'[k].id = linksFile[i].id
          /\ linksFile[i].id \notin deleted'
          => linksFile'[k].totalClicks >= linksFile[i].totalClicks]_vars

\* C29: in every state where no click insert is in progress, each stored
\* link's lastClickAt is the latest timestamp among the stored clicks of the
\* link, and is absent when the link has no click.  The links looked at are
\* those whose counters are the ones updateLinkStats computes from the stored
\* clicks: no write of a request has been lost for them.
C29_LastClickAtLatest ==
    (\A p \in Slots : ~InsertInProgress(p)) =>
        \A i \in LinkIndexes :
            LET own == getClicksByLinkId(clicksFile, linksFile[i].id)
            IN  /\ CountersMatch(linksFile[i], clicksFile)
                /\ linksFile[i].lastClickAt = StatsOf(own).lastClickAt
                => linksFile[i].lastClickAt = LatestTimestamp(own)

\* the links with every password taken out: what all the stores that differ
\* from links in passwords only have in common
Erase(links) == [i \in 1..Len(links) |-> [links[i] EXCEPT !.password = Undefined]]

\* the response of GET /api/links/{id} when the store holds links and clicks
LinkResponse(links, clicks, id, includeStats) ==
    LET found == getLinkById(links, id)
    IN  IF found = None THEN Response(404)
        ELSE IF ~includeStats THEN Json(200, found)
        ELSE Json(200, Some(WithStats(found[1],
                 Some(LinkStats(found[1], getClicksByLinkId(clicks, id))))))

\* C22: with one request at a time, the responses of GET /api/links and of
\* GET /api/links/{id}, with and without includeStats, are those the store
\* without any password gives, and the link a POST answers 201 with or a PUT
\* answers 200 with is a link of the store without any password: no response
\* depends on a stored password.
C22_NoPasswordInResponses ==
    \A p \in Slots :
        /\ Answered(p, "GET_LIST") => resp[p] = Json(200, Erase(linksFile))
        /\ Answered(p, "GET_LINK") =>
               resp[p] = LinkResponse(Erase(linksFile), clicksFile,
                                      req[p].id, req[p].includeStats)
        /\ (Answered(p, "POST") /\ resp[p].status = 201) \/
           (Answered(p, "PUT") /\ resp[p].status = 200 /\ resp[p].data # None)
           => \E i \in LinkIndexes : resp[p].data = Some(Erase(linksFile)[i])

\* GET /api/links/{id} with includeStats has answered for a link that has a
\* password and a click
C22_Witness ==
    \E p \in Slots, i \in LinkIndexes :
        /\ Answered(p, "GET_LINK")
        /\ req[p].includeStats
        /\ req[p].id = linksFile[i].id
        /\ Truthy(linksFile[i].password)
        /\ resp[p].status = 200
        /\ resp[p].data[1].stats # None
        /\ resp[p].data[1].stats[1].totalClicks = 1

\* the sum of the counts of a grouping
RECURSIVE SumOver(_, _)
SumOver(counts, keys) ==
    IF keys = {} THEN 0
    ELSE LET k == CHOOSE k \in keys : TRUE
         IN  counts[k] + SumOver(counts, keys \ {k})

GroupTotal(counts) == SumOver(counts, DOMAIN counts)

Groupings ==
    {"clicksByDate", "clicksByCountry", "clicksByDevice", "clicksByBrowser",
     "clicksByReferer"}

\* GET /api/links/{id}?includeStats=true has answered in slot p with the
\* LinkStats of a link
StatsAnswered(p) ==
    /\ Answered(p, "GET_LINK")
    /\ req[p].includeStats
    /\ resp[p].status = 200
    /\ resp[p].data[1].stats # None

\* C24: with one request at a time, the counts of each of the five groupings
\* of a LinkStats sum to the number of the stored clicks of the link: every
\* click is counted in one bucket of each grouping.
C24_GroupingsCountEveryClick ==
    \A p \in Slots :
        StatsAnswered(p) =>
            \A g \in Groupings :
                GroupTotal(resp[p].data[1].stats[1][g]) =
                    Len(getClicksByLinkId(clicksFile, req[p].id))

\* the sum of the percentages of the entries of topLocations
RECURSIVE PercentageSum(_)
PercentageSum(entries) ==
    IF entries = <<>> THEN 0
    ELSE entries[1].percentage + PercentageSum(Tail(entries))

\* C30: in every LinkStats returned while at most one request is writing,
\* when topLocations is not empty the link's totalClicks is positive, every
\* percentage is a number and the percentages sum to 100 at most.
C30_PercentagesDefined ==
    \A p \in Slots :
        StatsAnswered(p) =>
            LET stats == resp[p].data[1].stats[1]
            IN  stats.topLocations # <<>> =>
                    /\ stats.totalClicks > 0
                    /\ \A k \in 1..Len(stats.topLocations) :
                           stats.topLocations[k].percentage # Infinity
                    /\ PercentageSum(stats.topLocations) <= 100

\* C23: the overview a request is answered with, the store being unchanged
\* since the request arrived, has the numbers of the stored links, of the
\* stored clicks and of their distinct session ids; topPerformingLinks holds
\* min(5, totalLinks) distinct links by totalClicks descending and no link
\* left out has more clicks than one in it; recentActivity holds
\* min(10, totalClicks) clicks by timestamp descending, the latest ones; on an
\* empty store the counts are zero and both arrays are empty.
C23_OverviewOfSnapshot ==
    \A p \in Slots :
        Answered(p, "GET_OVERVIEW") =>
            LET o == resp[p].data[1]
                top == o.topPerformingLinks
                recent == o.recentActivity
            IN  /\ o.totalLinks = Len(linksFile)
                /\ o.totalClicks = Len(clicksFile)
                /\ o.uniqueClicks = Cardinality(SessionsOf(clicksFile))
                /\ Len(top) = IF Len(linksFile) < 5 THEN Len(linksFile) ELSE 5
                /\ \A k \in 1..Len(top) :
                      \E i \in LinkIndexes :
                          /\ top[k].id = linksFile[i].id
                          /\ top[k].shortCode = linksFile[i].shortCode
                          /\ top[k].clicks = linksFile[i].totalClicks
                /\ \A k, l \in 1..Len(top) :
                      /\ k # l => top[k].id # top[l].id
                      /\ k < l => top[k].clicks >= top[l].clicks
                /\ \A i \in LinkIndexes :
                      (\A k \in 1..Len(top) : top[k].id # linksFile[i].id) =>
                          \A k \in 1..Len(top) :
                              linksFile[i].totalClicks <= top[k].clicks
                /\ Len(recent) = IF Len(clicksFile) < 10 THEN Len(clicksFile) ELSE 10
                /\ \A k \in 1..Len(recent) :
                      /\ recent[k].clicks = 1
                      /\ \E j \in ClickIndexes :
                             /\ recent[k].linkId = clicksFile[j].linkId
                             /\ recent[k].shortCode = clicksFile[j].shortCode
                             /\ recent[k].timestamp = clicksFile[j].timestamp
                /\ \A k, l \in 1..Len(recent) :
                      k < l => recent[k].timestamp >= recent[l].timestamp
                /\ \A t \in 0..MaxTime :
                      LET stored == Cardinality({j \in ClickIndexes :
                                                    clicksFile[j].timestamp >= t})
                      IN  Cardinality({k \in 1..Len(recent) : recent[k].timestamp >= t})
                              = IF stored < 10 THEN stored ELSE 10
                /\ linksFile = <<>> /\ clicksFile = <<>> =>
                      o = [totalLinks |-> 0, totalClicks |-> 0, uniqueClicks |-> 0,
                           topPerformingLinks |-> <<>>, recentActivity |-> <<>>]

\* the overview of a store of more than 5 links and more than 10 clicks,
\* stored out of the order of their timestamps, the link of most clicks not
\* the first one, has been returned
C23_Witness ==
    \E p \in Slots :
        /\ Answered(p, "GET_OVERVIEW")
        /\ Len(linksFile) > 5
        /\ Len(clicksFile) > 10
        /\ \E j \in ClickIndexes : j > 1 /\ clicksFile[j].timestamp > clicksFile[1].timestamp
        /\ linksFile[1].totalClicks < linksFile[6].totalClicks
        /\ Len(resp[p].data[1].topPerformingLinks) = 5
        /\ Len(resp[p].data[1].recentActivity) = 10

====
